---- MODULE Spec2Model ----
(***************************************************************************)
(* Model of the synthetic-audience experiment endpoint                     *)
(* (src/modal_functions/app.py) and of the helpers it calls                *)
(* (persona_generator.py, experiment_runner.py).                           *)
(*                                                                         *)
(* The state machine follows the generator stream_results(): every yield   *)
(* of the generator is one action, and the Modal fan-out                   *)
(* execute_single_persona.map(personas, kwargs=...) is modelled by the     *)
(* per-input life cycle queued -> running -> done / failed that the        *)
(* platform gives each input.  The call site passes neither order_outputs  *)
(* nor return_exceptions, so the library defaults apply:                   *)
(* order_outputs=True (outputs are yielded in input order) and             *)
(* return_exceptions=False (a failed input raises out of the iteration).   *)
(*                                                                         *)
(* Numbers: sentiments are held in hundredths (0.5 is 50) and averages in  *)
(* thousandths (0.333 is 333).                                             *)
(***************************************************************************)
EXTENDS Integers, Sequences, FiniteSets, TLC

\* ---------------------------------------------------------------- bounds
MaxPersonas == 2
MaxArchetypes == 2

\* ------------------------------------------------------ program constants
\* @app.function(..., retries=1) on execute_single_persona
retries == 1

\* Python's None
None == "None"

\* ------------------------------------------------------------ input sets
\* Archetype objects of the request body: {id, name, count}
ArchetypeSpecs ==
    { [id |-> "a1", name |-> "VC", count |-> c] : c \in 1..MaxPersonas }
    \cup { [id |-> "a2", name |-> "Founder", count |-> c] : c \in 1..MaxPersonas }

RECURSIVE SumCounts(_)
SumCounts(as) ==
    IF as = <<>> THEN 0 ELSE Head(as).count + SumCounts(Tail(as))

SeqsUpTo(S, n) == UNION { [1..k -> S] : k \in 0..n }

\* personas_config.get("archetypes", []) : the lists the request may carry
ArchetypeLists ==
    { as \in SeqsUpTo(ArchetypeSpecs, MaxArchetypes) : SumCounts(as) <= MaxPersonas }

\* What the generation backend returns for one persona prompt, as
\* execute_persona reads it: response.content[0].text, the score
\* analyze_sentiment gives that text, and response.usage.
BackendReplies ==
    { [text |-> "text", sentiment |-> -100, input_tokens |-> 1, output_tokens |-> 3],
      [text |-> "text", sentiment |-> 50, input_tokens |-> 2, output_tokens |-> 3] }

\* Exceptions raised inside execute_persona's try block:
\* f"{type(e).__name__}: {str(e)}"
TaskErrors == { "APITimeoutError: Request timed out.",
                "IndexError: list index out of range" }

VARIABLES
    pc,            \* position of the generator stream_results
    archetypes,    \* personas_config["archetypes"]
    genIdx,        \* generate_personas: index of the archetype being expanded
    personas,      \* the list generate_personas builds / returns
    emitIdx,       \* index of the next persona_generated event
    stream,        \* the NDJSON lines yielded so far
    task,          \* per map input: [state, attempts, result]
    nextOut,       \* index of the next map output handed to the loop
    results,       \* results list of stream_results
    total_tokens,  \* total_tokens dict of stream_results
    completed,     \* the map inputs in the order their calls returned
    call           \* a helper function evaluated on its own: [fn, arg, ret]

vars == << pc, archetypes, genIdx, personas, emitIdx, stream, task, nextOut,
           results, total_tokens, completed, call >>

\* ------------------------------------------------------- small utilities
Last(s) == s[Len(s)]

RECURSIVE SumSeq(_)
SumSeq(s) == IF s = <<>> THEN 0 ELSE Head(s) + SumSeq(Tail(s))

Min(a, b) == IF a <= b THEN a ELSE b

\* round(n / d) to the nearest integer, ties to even (Python's round), d > 0
RoundHalfEven(n, d) ==
    LET q == n \div d
        r == n % d
    IN  IF 2 * r < d THEN q
        ELSE IF 2 * r > d THEN q + 1
        ELSE IF q % 2 = 0 THEN q ELSE q + 1

\* json.dumps(data) + "\n": one line of the stream per event
LinesOf(type) == { i \in 1..Len(stream) : stream[i].type = type }

\* ------------------------------------------------- persona_generator.py
\* What one client.messages.create call of generate_personas leads to:
\*   "list"     the text parses to a JSON array of k persona objects
\*   "not_json" json.loads raises JSONDecodeError: the placeholder fallback
\*   "not_list" the text parses, but not to a list of objects: the slice
\*              personas_data[:count] or persona_data.get raises
\*   "api_error" client.messages.create raises
GenerationReplies(count) ==
    { [kind |-> "list", k |-> k] : k \in 0..(count + 1) }
    \cup { [kind |-> "not_json", k |-> count],
           [kind |-> "not_list", k |-> 0],
           [kind |-> "api_error", k |-> 0] }

\* The persona dicts appended for one archetype: personas_data[:count],
\* each with a fresh id f"{archetype_id}-{uuid}" (uuid stands for the
\* position in the whole list, which no two personas share).  The text
\* fields (name, role, company, background, beliefs, decision_style) are
\* payload that nothing below branches on; they are left out.
PersonasOf(archetype, reply, already) ==
    LET n == Min(reply.k, archetype.count)
    IN  [ i \in 1..n |->
            [ id |-> << archetype.id, already + i >>,
              archetype_id |-> archetype.id,
              archetype_name |-> archetype.name ] ]

GenerationRaises(reply) == reply.kind \in {"not_list", "api_error"}

\* ------------------------------------------------- experiment_runner.py
\* execute_persona, the return of the try block (lines 76-94)
SuccessResult(persona, reply) ==
    [ persona_id |-> persona.id,
      archetype_id |-> persona.archetype_id,
      archetype_name |-> persona.archetype_name,
      response |-> reply.text,
      sentiment |-> reply.sentiment,
      tokens |-> [input |-> reply.input_tokens, output |-> reply.output_tokens],
      error |-> None ]

\* execute_persona, the return of the except branch (lines 96-109)
ErrorResult(persona, err) ==
    [ persona_id |-> persona.id,
      archetype_id |-> persona.archetype_id,
      archetype_name |-> persona.archetype_name,
      response |-> None,
      sentiment |-> 0,
      tokens |-> [input |-> 0, output |-> 0],
      error |-> err ]

\* Every way execute_persona can return for a persona
TaskReturns(persona) ==
    { SuccessResult(persona, reply) : reply \in BackendReplies }
    \cup { ErrorResult(persona, err) : err \in TaskErrors }

\* ----------------------------------------------------------------- app.py
\* mutant of AddTokens: the input count is added to both totals
AddTokens_InputTwice(tt, result) ==
    [ input |-> tt.input + result.tokens.input,
      output |-> tt.output + result.tokens.input ]

\* total_tokens["input"] += ... ; total_tokens["output"] += ... (168-169)
AddTokens(tt, result) ==
    [ input |-> tt.input + result.tokens.input,
      output |-> tt.output + result.tokens.output ]

\* the response_complete line (171-182)
ResponseCompleteEvent(result) ==
    [ type |-> "response_complete",
      persona_id |-> result.persona_id,
      archetype_id |-> result.archetype_id,
      archetype_name |-> result.archetype_name,
      response |-> result.response,
      sentiment |-> result.sentiment,
      tokens |-> result.tokens,
      error |-> result.error ]

\* the persona_generated line (140-148)
PersonaGeneratedEvent(persona) ==
    [ type |-> "persona_generated",
      persona_id |-> persona.id,
      archetype_id |-> persona.archetype_id,
      archetype_name |-> persona.archetype_name ]

StatusEvent(message) == [ type |-> "status", message |-> message ]

\* mutant of IsSuccessful: the error field is not looked at
IsSuccessful_All(r) == TRUE

\* [r for r in results if r.get("error") is None]
IsSuccessful(r) == r.error = None
Successful(rs) == SelectSeq(rs, IsSuccessful)

\* [r for r in results if r.get("error") is not None]
IsFailed(r) == r.error # None
Failed(rs) == SelectSeq(rs, IsFailed)

\* round(sum(scores) / len(scores), 3), scores in hundredths, in thousandths
Mean3(scores) == RoundHalfEven(10 * SumSeq(scores), Len(scores))

SentimentsOf(rs) == [ i \in 1..Len(rs) |-> rs[i].sentiment ]

\* avg_sentiment (189-192)
AvgSentiment(successful) ==
    IF Len(successful) > 0 THEN Mean3(SentimentsOf(successful)) ELSE 0

\* by_archetype and archetype_sentiments (195-205)
OfArchetype(rs, arch) ==
    LET Keep(r) == r.archetype_name = arch IN SelectSeq(rs, Keep)

ArchetypeSentiments(successful) ==
    LET names == { successful[i].archetype_name : i \in 1..Len(successful) }
    IN  [ arch \in names |-> Mean3(SentimentsOf(OfArchetype(successful, arch))) ]

\* the experiment_complete line (207-220)
ExperimentCompleteEvent(ps, rs, tt) ==
    [ type |-> "experiment_complete",
      results |-> rs,
      metrics |->
        [ total_personas |-> Len(ps),
          successful_responses |-> Len(Successful(rs)),
          failed_responses |-> Len(Failed(rs)),
          avg_sentiment |-> AvgSentiment(Successful(rs)),
          archetype_sentiments |-> ArchetypeSentiments(Successful(rs)),
          total_tokens |-> tt ] ]

\* ------------------------------------------------------------ the machine
NoTasks == << >>

Init ==
    /\ pc = "start"
    /\ archetypes \in ArchetypeLists
    /\ genIdx = 1
    /\ personas = << >>
    /\ emitIdx = 1
    /\ stream = << >>
    /\ task = NoTasks
    /\ nextOut = 1
    /\ results = << >>
    /\ total_tokens = [input |-> 0, output |-> 0]
    /\ completed = << >>
    /\ call = None

\* stream_results, first yield: the "Generating personas..." status (123-127)
Begin ==
    /\ pc = "start"
    /\ stream' = Append(stream, StatusEvent("Generating personas..."))
    /\ pc' = "generate"
    /\ UNCHANGED << archetypes, genIdx, personas, emitIdx, task, nextOut,
                    results, total_tokens, completed, call >>

\* generate_personas, one iteration of `for archetype in archetypes`: the
\* backend call, the parse with its JSONDecodeError fallback, and the
\* append of personas_data[:count].  Nothing in generate_personas or in
\* stream_results catches an exception of the call or of a parsed value
\* that is no list of objects: it ends the generator.
GenerateArchetype ==
    /\ pc = "generate"
    /\ genIdx <= Len(archetypes)
    /\ \E reply \in GenerationReplies(archetypes[genIdx].count) :
         IF GenerationRaises(reply)
         THEN /\ pc' = "raised"
              /\ UNCHANGED << genIdx, personas >>
         ELSE /\ personas' = personas \o
                    PersonasOf(archetypes[genIdx], reply, Len(personas))
              /\ genIdx' = genIdx + 1
              /\ pc' = pc
    /\ UNCHANGED << archetypes, emitIdx, stream, task, nextOut, results,
                    total_tokens, completed, call >>

\* generate_personas returns all_personas (123)
GenerateReturn ==
    /\ pc = "generate"
    /\ genIdx > Len(archetypes)
    /\ pc' = "emit_personas"
    /\ UNCHANGED << archetypes, genIdx, personas, emitIdx, stream, task,
                    nextOut, results, total_tokens, completed, call >>

\* `for persona in personas: yield persona_generated` (139-148)
EmitPersonaGenerated ==
    /\ pc = "emit_personas"
    /\ emitIdx <= Len(personas)
    /\ stream' = Append(stream, PersonaGeneratedEvent(personas[emitIdx]))
    /\ emitIdx' = emitIdx + 1
    /\ UNCHANGED << pc, archetypes, genIdx, personas, task, nextOut, results,
                    total_tokens, completed, call >>

\* the "Running N persona responses in parallel..." status (151-155)
EmitRunningStatus ==
    /\ pc = "emit_personas"
    /\ emitIdx > Len(personas)
    /\ stream' = Append(stream, StatusEvent(<< "Running", Len(personas) >>))
    /\ pc' = "dispatch"
    /\ UNCHANGED << archetypes, genIdx, personas, emitIdx, task, nextOut,
                    results, total_tokens, completed, call >>

\* mutant of MapDispatch: the map is entered while persona_generated lines
\* are still to be emitted
MapDispatch_Early ==
    /\ pc = "emit_personas"
    /\ task' = [ i \in 1..Len(personas) |->
                  [state |-> "queued", attempts |-> 0, result |-> None] ]
    /\ pc' = "map"
    /\ UNCHANGED << archetypes, genIdx, personas, emitIdx, stream, nextOut,
                    results, total_tokens, completed, call >>

\* execute_single_persona.map(personas, kwargs=...) is entered: one input
\* per element of personas is handed to the platform (157-166)
MapInputs(ps) ==
    [ i \in 1..Len(ps) |-> [state |-> "queued", attempts |-> 0, result |-> None] ]

MapDispatch ==
    /\ pc = "dispatch"
    /\ task' = MapInputs(personas)
    /\ pc' = "map"
    /\ UNCHANGED << archetypes, genIdx, personas, emitIdx, stream, nextOut,
                    results, total_tokens, completed, call >>

\* the inputs whose call is running in a container
InFlight == { i \in DOMAIN task : task[i].state = "running" }

\* mutant of MayStart: a single slot, an input waits while another runs
MayStart_OneSlot(i) == task[i].state = "queued" /\ InFlight = {}

\* The inputs a container may pick up.  Neither the decorator of
\* execute_single_persona (28-33) nor the map call sets a limit on the
\* number of containers, so every queued input may start.
MayStart(i) == task[i].state = "queued"

\* a container starts execute_single_persona for input i
TaskStart(i) ==
    /\ pc = "map"
    /\ MayStart(i)
    /\ task' = [task EXCEPT ![i].state = "running"]
    /\ UNCHANGED << pc, archetypes, genIdx, personas, emitIdx, stream,
                    nextOut, results, total_tokens, completed, call >>

\* execute_single_persona returns what execute_persona returns (49-56):
\* the success dict, or the dict of its except branch
TaskReturn(i) ==
    /\ pc = "map"
    /\ task[i].state = "running"
    /\ \E r \in TaskReturns(personas[i]) :
         task' = [task EXCEPT ![i].state = "done", ![i].result = r]
    /\ completed' = Append(completed, i)
    /\ UNCHANGED << pc, archetypes, genIdx, personas, emitIdx, stream,
                    nextOut, results, total_tokens, call >>

\* The call outlives the function's timeout=120 (31): the platform kills
\* the container.  The input is retried `retries` times (32); after that
\* the input has failed with the platform's timeout exception.
TaskTimeout(i) ==
    /\ pc = "map"
    /\ task[i].state = "running"
    /\ IF task[i].attempts < retries
       THEN task' = [task EXCEPT ![i].state = "queued",
                                 ![i].attempts = task[i].attempts + 1]
       ELSE task' = [task EXCEPT ![i].state = "failed"]
    /\ UNCHANGED << pc, archetypes, genIdx, personas, emitIdx, stream,
                    nextOut, results, total_tokens, completed, call >>

\* The output the map iterator may hand to the loop next.  The call passes
\* no order_outputs, and the default True yields outputs in input order.
NextOutputs ==
    { i \in DOMAIN task : i = nextOut /\ task[i].state = "done" }

\* mutant of MapYield: a result that carries an error is streamed but not
\* appended to results
MapYield_DropFailed ==
    /\ pc = "map"
    /\ \E i \in NextOutputs :
         LET result == task[i].result IN
         /\ results' = IF result.error # None THEN results ELSE Append(results, result)
         /\ total_tokens' = AddTokens(total_tokens, result)
         /\ stream' = Append(stream, ResponseCompleteEvent(result))
         /\ nextOut' = nextOut + 1
    /\ UNCHANGED << pc, archetypes, genIdx, personas, emitIdx, task, completed, call >>

\* one iteration of the `for result in ....map(...)` loop (158-182)
MapYield ==
    /\ pc = "map"
    /\ \E i \in NextOutputs :
         LET result == task[i].result IN
         /\ results' = Append(results, result)
         /\ total_tokens' = AddTokens(total_tokens, result)
         /\ stream' = Append(stream, ResponseCompleteEvent(result))
         /\ nextOut' = nextOut + 1
    /\ UNCHANGED << pc, archetypes, genIdx, personas, emitIdx, task, completed, call >>

\* The map call passes no return_exceptions (default False): the exception
\* of a failed input is raised out of the iteration at line 158, which
\* nothing in stream_results catches.  The generator ends there.
MapRaise ==
    /\ pc = "map"
    /\ \E i \in DOMAIN task : task[i].state = "failed"
    /\ pc' = "raised"
    /\ UNCHANGED << archetypes, genIdx, personas, emitIdx, stream, task,
                    nextOut, results, total_tokens, completed, call >>

\* mutant of MapExhausted: the loop ends one output early
MapExhausted_OneEarly == nextOut >= Len(task)

\* the map iterator is exhausted: phase 3 and the last yield (184-220)
MapExhausted == nextOut > Len(task)

Aggregate ==
    /\ pc = "map"
    /\ MapExhausted
    /\ stream' = Append(stream,
                        ExperimentCompleteEvent(personas, results, total_tokens))
    /\ pc' = "done"
    /\ UNCHANGED << archetypes, genIdx, personas, emitIdx, task, nextOut,
                    results, total_tokens, completed, call >>

Next ==
    \/ Begin
    \/ GenerateArchetype
    \/ GenerateReturn
    \/ EmitPersonaGenerated
    \/ EmitRunningStatus
    \/ MapDispatch
    \/ \E i \in DOMAIN task : TaskStart(i)
    \/ \E i \in DOMAIN task : TaskReturn(i)
    \/ \E i \in DOMAIN task : TaskTimeout(i)
    \/ MapYield
    \/ MapRaise
    \/ Aggregate

Spec == Init /\ [][Next]_vars

\* =================================================================== claims
\* the generator has returned or an exception has ended it
StreamEnded == pc \in {"done", "raised"}

\* generate_personas has returned the persona list
GenerationReturned == pc # "start" /\ genIdx > Len(archetypes)

\* the map call has been entered with the personas as its inputs
Dispatched == GenerationReturned /\ pc \in {"map", "done", "raised"}

\* the index in personas of the persona an event or result is about
PersonaIndex(id) == CHOOSE k \in 1..Len(personas) : personas[k].id = id

\* the map inputs in the order of their response_complete lines
RECURSIVE EmittedOrderFrom(_)
EmittedOrderFrom(i) ==
    IF i > Len(stream) THEN << >>
    ELSE IF stream[i].type = "response_complete"
         THEN << PersonaIndex(stream[i].persona_id) >> \o EmittedOrderFrom(i + 1)
         ELSE EmittedOrderFrom(i + 1)
EmittedOrder == EmittedOrderFrom(1)

IsPrefix(s, t) == Len(s) <= Len(t) /\ \A i \in 1..Len(s) : s[i] = t[i]

\* C1: once generate_personas has returned N personas, the stream that has
\* ended holds exactly N response_complete lines and exactly one
\* experiment_complete line, whatever the tasks did.
C1_NResponsesOneComplete ==
    (StreamEnded /\ GenerationReturned) =>
        /\ Cardinality(LinesOf("response_complete")) = Len(personas)
        /\ Cardinality(LinesOf("experiment_complete")) = 1

\* C2: experiment_complete is a barrier: when it is in the stream, every
\* dispatched task has completed, every task's response_complete line
\* precedes it, and it is the last line of the stream.
C2_CompleteIsBarrier ==
    \A e \in LinesOf("experiment_complete") :
        /\ e = Len(stream)
        /\ Len(task) = Len(personas)
        /\ \A i \in DOMAIN task :
             /\ task[i].state = "done"
             /\ \E k \in LinesOf("response_complete") :
                  k < e /\ stream[k].persona_id = personas[i].id

C2_Witness ==
    /\ pc = "done"
    /\ Len(personas) >= 2
    /\ \E i, j \in DOMAIN task :
         task[i].result.error = None /\ task[j].result.error # None

\* C3: exactly one persona_generated line per generated persona, every
\* persona_generated line precedes every response_complete line, and no
\* task is dispatched before all persona_generated lines were emitted.
C3_PersonaEventsFirst ==
    /\ \A g \in LinesOf("persona_generated") :
         \A r \in LinesOf("response_complete") : g < r
    /\ \A k \in 1..Len(personas) :
         Cardinality({ g \in LinesOf("persona_generated") :
                         stream[g].persona_id = personas[k].id }) <= 1
    /\ (Dispatched \/ task # NoTasks) =>
         /\ Cardinality(LinesOf("persona_generated")) = Len(personas)
         /\ \A k \in 1..Len(personas) :
              \E g \in LinesOf("persona_generated") :
                  stream[g].persona_id = personas[k].id

C3_Witness ==
    /\ Cardinality(LinesOf("persona_generated")) >= 2
    /\ Cardinality(LinesOf("response_complete")) >= 1

\* C4: response_complete lines appear in task completion order: the inputs
\* in the order of their lines are a prefix of the inputs in the order in
\* which their calls returned.
C4_CompletionOrder == IsPrefix(EmittedOrder, completed)

\* C5: a failure of a persona task is recovered inside the task into the
\* error result, so that every result has exactly one of response / error
\* non-null, and no failure escapes the task or aborts the batch.
C5_ResultShape ==
    \A i \in DOMAIN task :
        task[i].state = "done" =>
            LET r == task[i].result IN
            /\ (r.response = None) # (r.error = None)
            /\ r.error # None =>
                 /\ r.sentiment = 0
                 /\ r.tokens = [input |-> 0, output |-> 0]

C5_FailureStaysInTask ==
    /\ C5_ResultShape
    /\ \A i \in DOMAIN task : task[i].state # "failed"
    /\ Dispatched => pc # "raised"

\* C6: a task that exceeds its timeout degrades to an error result (error
\* non-null, response null) that is reported as a response_complete line,
\* and the stream still reaches experiment_complete.
C6_TimeoutDegrades ==
    StreamEnded =>
        \A i \in DOMAIN task :
            task[i].state = "failed" =>
                /\ \E k \in LinesOf("response_complete") :
                     /\ stream[k].persona_id = personas[i].id
                     /\ stream[k].error # None
                     /\ stream[k].response = None
                /\ LinesOf("experiment_complete") # {}

C8_EndsWithTerminalLine ==
    StreamEnded =>
        /\ stream # << >>
        /\ Last(stream).type \in {"experiment_complete", "abort"}

\* the tokens.input / tokens.output of the results, as sequences
InputsOf(rs) == [ i \in 1..Len(rs) |-> rs[i].tokens.input ]
OutputsOf(rs) == [ i \in 1..Len(rs) |-> rs[i].tokens.output ]

\* C9: in experiment_complete, total_tokens.input and .output are the sums
\* of the results' tokens.input and tokens.output, and every failed result
\* adds zero to both (so the sums over the successful results are the same).
C9_TokenTotals ==
    \A e \in LinesOf("experiment_complete") :
        LET rs == stream[e].results
            ok == SelectSeq(rs, LAMBDA r : r.error = None)
            tt == stream[e].metrics.total_tokens
        IN  /\ tt.input = SumSeq(InputsOf(rs))
            /\ tt.output = SumSeq(OutputsOf(rs))
            /\ \A i \in 1..Len(rs) :
                 rs[i].error # None => rs[i].tokens = [input |-> 0, output |-> 0]
            /\ tt.input = SumSeq(InputsOf(ok))
            /\ tt.output = SumSeq(OutputsOf(ok))

C9_Witness ==
    \E e \in LinesOf("experiment_complete") :
        /\ \E i \in 1..Len(stream[e].results) : stream[e].results[i].error # None
        /\ \E i \in 1..Len(stream[e].results) : stream[e].results[i].error = None
        /\ stream[e].metrics.total_tokens.input > 0

\* C10: in experiment_complete, the keys of archetype_sentiments are exactly
\* the archetype names of the results whose error is null; with no such
\* result the map is empty and avg_sentiment is 0.0; and the aggregation
\* always goes through once the map is exhausted.
C10_ArchetypeKeys ==
    /\ \A e \in LinesOf("experiment_complete") :
         LET rs == stream[e].results
             m == stream[e].metrics
             okNames == { rs[i].archetype_name :
                            i \in { j \in 1..Len(rs) : rs[j].error = None } }
         IN  /\ DOMAIN m.archetype_sentiments = okNames
             /\ okNames = {} =>
                  /\ m.archetype_sentiments = << >>
                  /\ m.avg_sentiment = 0
    /\ (pc = "map" /\ MapExhausted) => ENABLED Aggregate

C10_Witness ==
    \E e \in LinesOf("experiment_complete") :
        LET rs == stream[e].results IN
        \E i, j \in 1..Len(rs) :
            /\ rs[i].error # None
            /\ rs[j].error = None
            /\ rs[i].archetype_name # rs[j].archetype_name
            /\ rs[i].archetype_name \notin
                 DOMAIN stream[e].metrics.archetype_sentiments

\* ======================================================= helper functions
\* The pure helpers (sentiment.py, van_westendorp.py) are evaluated on
\* their own: `call` holds the function, its argument and, once it has
\* returned, its value (ret is << >> before the return, <<value>> after).
\* Texts are sequences of one-character strings.
mainVars == << pc, archetypes, genIdx, personas, emitIdx, stream, task,
              nextOut, results, total_tokens, completed >>

\* run_experiment is not running
MainIdle ==
    /\ pc = "idle"
    /\ archetypes = << >>
    /\ genIdx = 1
    /\ personas = << >>
    /\ emitIdx = 1
    /\ stream = << >>
    /\ task = << >>
    /\ nextOut = 1
    /\ results = << >>
    /\ total_tokens = [input |-> 0, output |-> 0]
    /\ completed = << >>

Calls(fn, args) == { [fn |-> fn, arg |-> a, ret |-> << >>] : a \in args }
Returned(fn) == call.fn = fn /\ call.ret # << >>

RECURSIVE Concat(_)
Concat(pieces) ==
    IF pieces = << >> THEN << >> ELSE Head(pieces) \o Concat(Tail(pieces))

\* ------------------------------------------------------------ sentiment.py
\* _POSITIVE_SIGNALS, weight 2 (lines 12-14)
StrongPositive ==
    { <<"i","n","v","e","s","t">>,
      <<"e","x","c","i","t","e","d">>,
      <<"c","o","m","p","e","l","l","i","n","g">>,
      <<"s","t","r","o","n","g">>,
      <<"e","x","c","e","l","l","e","n","t">>,
      <<"i","m","p","r","e","s","s","i","v","e">>,
      <<"o","u","t","s","t","a","n","d","i","n","g">>,
      <<"l","o","v","e">>,
      <<"d","e","f","i","n","i","t","e","l","y">>,
      <<"a","b","s","o","l","u","t","e","l","y">>,
      <<"c","o","n","f","i","d","e","n","t">> }
\* _POSITIVE_SIGNALS, weight 1 (lines 16-22)
ModeratePositive ==
    { <<"i","n","t","e","r","e","s","t","e","d">>,
      <<"g","o","o","d">>,
      <<"p","r","o","m","i","s","i","n","g">>,
      <<"p","o","t","e","n","t","i","a","l">>,
      <<"l","i","k","e">>,
      <<"p","o","s","i","t","i","v","e">>,
      <<"s","o","l","i","d">>,
      <<"g","r","e","a","t">>,
      <<"p","r","e","f","e","r">>,
      <<"a","g","r","e","e">>,
      <<"r","e","c","o","m","m","e","n","d">>,
      <<"s","u","p","p","o","r","t">>,
      <<"v","a","l","u","a","b","l","e">>,
      <<"u","s","e","f","u","l">>,
      <<"i","m","p","o","r","t","a","n","t">>,
      <<"b","e","n","e","f","i","c","i","a","l">>,
      <<"o","p","p","o","r","t","u","n","i","t","y">>,
      <<"i","n","n","o","v","a","t","i","v","e">>,
      <<"g","r","o","w","t","h">>,
      <<"t","r","a","c","t","i","o","n">>,
      <<"a","p","p","e","a","l","i","n","g">>,
      <<"r","e","a","s","o","n","a","b","l","e">>,
      <<"f","a","i","r">>,
      <<"w","i","l","l","i","n","g">>,
      <<"u","p","g","r","a","d","e">>,
      <<"s","u","b","s","c","r","i","b","e">>,
      <<"a","d","o","p","t">> }
\* _NEGATIVE_SIGNALS, weight 2 (lines 27-29)
StrongNegative ==
    { <<"p","a","s","s">>,
      <<"r","e","j","e","c","t">>,
      <<"t","e","r","r","i","b","l","e">>,
      <<"a","w","f","u","l">>,
      <<"n","e","v","e","r">>,
      <<"u","n","a","c","c","e","p","t","a","b","l","e">>,
      <<"d","e","a","l","b","r","e","a","k","e","r">>,
      <<"o","v","e","r","p","r","i","c","e","d">>,
      <<"c","h","u","r","n">>,
      <<"c","a","n","c","e","l">>,
      <<"l","e","a","v","e">> }
\* _NEGATIVE_SIGNALS, weight 1 (lines 31-37)
ModerateNegative ==
    { <<"c","o","n","c","e","r","n">>,
      <<"r","i","s","k">>,
      <<"w","o","r","r","y">>,
      <<"d","o","u","b","t">>,
      <<"e","x","p","e","n","s","i","v","e">>,
      <<"u","n","c","l","e","a","r">>,
      <<"w","e","a","k">>,
      <<"p","r","o","b","l","e","m">>,
      <<"d","i","f","f","i","c","u","l","t">>,
      <<"c","h","a","l","l","e","n","g","e">>,
      <<"i","s","s","u","e">>,
      <<"m","i","s","s","i","n","g">>,
      <<"l","a","c","k">>,
      <<"i","n","s","u","f","f","i","c","i","e","n","t">>,
      <<"u","n","l","i","k","e","l","y">>,
      <<"h","e","s","i","t","a","n","t">>,
      <<"s","k","e","p","t","i","c","a","l">>,
      <<"c","a","u","t","i","o","u","s">>,
      <<"l","i","m","i","t","e","d">>,
      <<"c","o","n","c","e","r","n","e","d">>,
      <<"c","o","m","p","e","t","i","t","i","v","e">>,
      <<"c","r","o","w","d","e","d">>,
      <<"s","a","t","u","r","a","t","e","d">>,
      <<"p","r","e","m","a","t","u","r","e">>,
      <<"c","o","n","f","u","s","e","d">>,
      <<"f","r","u","s","t","r","a","t","e","d">>,
      <<"d","i","s","a","p","p","o","i","n","t","e","d">> }

POSITIVE_SIGNALS == [w \in StrongPositive |-> 2] @@ [w \in ModeratePositive |-> 1]
NEGATIVE_SIGNALS == [w \in StrongNegative |-> 2] @@ [w \in ModerateNegative |-> 1]

AsciiUpper == << "A","B","C","D","E","F","G","H","I","J","K","L","M",
                 "N","O","P","Q","R","S","T","U","V","W","X","Y","Z" >>
AsciiLower == << "a","b","c","d","e","f","g","h","i","j","k","l","m",
                 "n","o","p","q","r","s","t","u","v","w","x","y","z" >>
Digits == { "0","1","2","3","4","5","6","7","8","9" }
Range(s) == { s[i] : i \in DOMAIN s }

\* str.lower(), on the characters the texts are made of
LowerOf ==
    [ c \in Range(AsciiUpper) |->
        AsciiLower[CHOOSE i \in DOMAIN AsciiUpper : AsciiUpper[i] = c] ]
LowerChar(c) == IF c \in DOMAIN LowerOf THEN LowerOf[c] ELSE c
LowerText(text) == [ i \in DOMAIN text |-> LowerChar(text[i]) ]

\* [a-z]
IsAZ(c) == c \in Range(AsciiLower)
\* \w of a str pattern: letters of any alphabet, digits and the underscore
IsWordChar(c) == IsAZ(c) \/ c \in Range(AsciiUpper) \/ c \in Digits \/ c \in {"_", "é"}
\* str.strip() strips these
IsSpace(c) == c \in {" ", "\n", "\t"}

\* the end of the run of [a-z] that starts at i
RECURSIVE RunEnd(_, _)
RunEnd(text, i) ==
    IF i < Len(text) /\ IsAZ(text[i + 1]) THEN RunEnd(text, i + 1) ELSE i

\* \b at the gap before position i (between text[i-1] and text[i])
WordBoundary(text, i) ==
    LET before == i > 1 /\ IsWordChar(text[i - 1])
        after == i <= Len(text) /\ IsWordChar(text[i])
    IN  before # after

\* mutant of FindWords: every maximal run of [a-z] is a word, whatever is
\* next to it (the pattern without its two \b)
RECURSIVE FindWords_NoBoundary(_, _)
FindWords_NoBoundary(text, i) ==
    IF i > Len(text) THEN << >>
    ELSE IF IsAZ(text[i])
         THEN LET j == RunEnd(text, i)
              IN  << SubSeq(text, i, j) >> \o FindWords_NoBoundary(text, j + 1)
         ELSE FindWords_NoBoundary(text, i + 1)

\* re.findall(r"\b[a-z]+\b", text) scanning from position i: the leftmost
\* match, greedy, then on from its end (line 50).  A run of [a-z] has no \b
\* inside it, so a match takes a whole run, or the run holds no match.
RECURSIVE FindWordsFrom(_, _)
FindWordsFrom(text, i) ==
    IF i > Len(text) THEN << >>
    ELSE IF IsAZ(text[i]) /\ WordBoundary(text, i)
         THEN LET j == RunEnd(text, i)
              IN  IF WordBoundary(text, j + 1)
                  THEN << SubSeq(text, i, j) >> \o FindWordsFrom(text, j + 1)
                  ELSE FindWordsFrom(text, j + 1)
         ELSE FindWordsFrom(text, i + 1)

FindWords(text, i) == FindWordsFrom(text, i)

\* the loop over words (lines 52-59): positive_score and negative_score
RECURSIVE ScoreWords(_)
ScoreWords(words) ==
    IF words = << >> THEN [pos |-> 0, neg |-> 0]
    ELSE LET rest == ScoreWords(Tail(words))
             w == Head(words)
         IN  [ pos |-> rest.pos +
                       (IF w \in DOMAIN POSITIVE_SIGNALS THEN POSITIVE_SIGNALS[w] ELSE 0),
               neg |-> rest.neg +
                       (IF w \in DOMAIN NEGATIVE_SIGNALS THEN NEGATIVE_SIGNALS[w] ELSE 0) ]

\* max(-1.0, min(1.0, x)), in hundredths
Clamp(x) == IF x < -100 THEN -100 ELSE IF x > 100 THEN 100 ELSE x

\* mutant of NormalizedScore: the score is not divided by the total
NormalizedScore_Raw(pos, neg) == Clamp(100 * (pos - neg))

\* lines 61-69: 0.0 for total == 0, else the clamped round(raw_score, 2)
NormalizedScore(pos, neg) ==
    IF pos + neg = 0 THEN 0
    ELSE Clamp(RoundHalfEven(100 * (pos - neg), pos + neg))

\* analyze_sentiment(text), in hundredths (lines 41-69)
analyze_sentiment(text) ==
    IF text = << >> \/ \A i \in DOMAIN text : IsSpace(text[i]) THEN 0
    ELSE LET sc == ScoreWords(FindWords(LowerText(text), 1))
         IN  NormalizedScore(sc.pos, sc.neg)

\* ---- analyze_sentiment on its own
MaxSentimentPieces == 3

\* what the texts are put together from: signal words in either case, a
\* word that is no signal, punctuation, white space, a digit, an underscore
\* and a letter outside a-z
SentimentPieces ==
    { <<"G","R","E","A","T">>,
      <<"g","r","e","a","t">>,
      <<"p","a","s","s">>,
      <<"l","o","v","e">>,
      <<"t","h","e">>,
      <<"!">>,
      <<" ">>,
      <<"2">>,
      <<"_">>,
      <<"é">> }

SentimentTexts ==
    { Concat(ps) : ps \in SeqsUpTo(SentimentPieces, MaxSentimentPieces) }

SentimentInit ==
    /\ MainIdle
    /\ call \in Calls("analyze_sentiment", SentimentTexts)

AnalyzeSentiment ==
    /\ call.fn = "analyze_sentiment"
    /\ call.ret = << >>
    /\ call' = [call EXCEPT !.ret = << analyze_sentiment(call.arg) >>]
    /\ UNCHANGED mainVars

SentimentNext == AnalyzeSentiment

SentimentSpec == SentimentInit /\ [][SentimentNext]_vars

\* the weight each word has in a table (0 when it is not in it)
WeightsIn(table, words) ==
    [ i \in DOMAIN words |-> IF words[i] \in DOMAIN table THEN table[words[i]] ELSE 0 ]

\* C11: analyze_sentiment returns 0.0 when the summed weights pos and neg of
\* the tokens give pos + neg = 0 (so for every text without a signal word),
\* else (pos - neg) / (pos + neg) rounded to 2 decimals, which lies in
\* [-1.0, 1.0]; the two tables share no word, so no token adds to both.
C11_SentimentValue ==
    Returned("analyze_sentiment") =>
        LET words == FindWords(LowerText(call.arg), 1)
            pos == SumSeq(WeightsIn(POSITIVE_SIGNALS, words))
            neg == SumSeq(WeightsIn(NEGATIVE_SIGNALS, words))
            score == call.ret[1]
        IN  /\ pos + neg = 0 => score = 0
            /\ pos + neg > 0 => score = RoundHalfEven(100 * (pos - neg), pos + neg)
            /\ score >= -100 /\ score <= 100
            /\ DOMAIN POSITIVE_SIGNALS \cap DOMAIN NEGATIVE_SIGNALS = {}
            /\ \A i \in DOMAIN words :
                 WeightsIn(POSITIVE_SIGNALS, words)[i] = 0
                 \/ WeightsIn(NEGATIVE_SIGNALS, words)[i] = 0

C11_Witness ==
    /\ Returned("analyze_sentiment")
    /\ call.ret[1] \notin {-100, 0, 100}

\* the runs of a-z of a text that no a-z character extends, by their start
RunStarts(text) ==
    { i \in DOMAIN text : IsAZ(text[i]) /\ (i = 1 \/ ~IsAZ(text[i - 1])) }

\* those of them with no word character on either side
BoundedRunStarts(text) ==
    { i \in RunStarts(text) :
        /\ i = 1 \/ ~IsWordChar(text[i - 1])
        /\ RunEnd(text, i) = Len(text) \/ ~IsWordChar(text[RunEnd(text, i) + 1]) }

RECURSIVE SumOfRuns(_, _, _)
SumOfRuns(table, text, starts) ==
    IF starts = {} THEN 0
    ELSE LET i == CHOOSE x \in starts : TRUE
             w == SubSeq(text, i, RunEnd(text, i))
         IN  (IF w \in DOMAIN table THEN table[w] ELSE 0)
             + SumOfRuns(table, text, starts \ {i})

\* the score of a text whose tokens are the runs that start at `starts`
ScoreOfRuns(text, starts) ==
    LET pos == SumOfRuns(POSITIVE_SIGNALS, text, starts)
        neg == SumOfRuns(NEGATIVE_SIGNALS, text, starts)
    IN  IF pos + neg = 0 THEN 0 ELSE RoundHalfEven(100 * (pos - neg), pos + neg)

\* C12 as stated: the tokens are the maximal alphabetic runs of the
\* lowercased text, every non-letter being a separator.
C12_EveryNonLetterSeparates ==
    Returned("analyze_sentiment") =>
        LET text == LowerText(call.arg)
        IN  call.ret[1] = ScoreOfRuns(text, RunStarts(text))

\* C12 as amended: the tokens are the maximal runs of a-z of the lowercased
\* text that have no word character (digit, underscore, other letter) on
\* either side; a run next to one is no token.
C12_WordBoundedRuns ==
    Returned("analyze_sentiment") =>
        LET text == LowerText(call.arg)
        IN  call.ret[1] = ScoreOfRuns(text, BoundedRunStarts(text))

\* an upper-case signal word next to a digit or underscore: not a token
C12_Witness ==
    /\ Returned("analyze_sentiment")
    /\ LET text == LowerText(call.arg)
       IN  /\ text # call.arg
           /\ BoundedRunStarts(text) = {}
           /\ ScoreOfRuns(text, RunStarts(text)) = 100
           /\ call.ret[1] = 0

\* ------------------------------------------------------ van_westendorp.py
\* Prices are held in cents (120.50 is 12050).  An optional value (a dict
\* or None in the code) is << >> for None and <<value>> otherwise.
NoValue == << >>

LitTOO == <<"T","O","O">>
LitEXPENSIVE == <<"E","X","P","E","N","S","I","V","E">>
LitBARGAIN == <<"B","A","R","G","A","I","N">>
LitCHEAP == <<"C","H","E","A","P">>

\* a literal of a pattern at position i, under re.IGNORECASE
MatchesAt(text, i, lit) ==
    /\ i >= 1
    /\ i + Len(lit) - 1 <= Len(text)
    /\ \A k \in DOMAIN lit : LowerChar(text[i + k - 1]) = LowerChar(lit[k])

\* TOO[_\s]X at position i
TooLabelAt(text, i, lit) ==
    /\ MatchesAt(text, i, LitTOO)
    /\ i + 3 <= Len(text)
    /\ text[i + 3] = "_" \/ IsSpace(text[i + 3])
    /\ MatchesAt(text, i + 4, lit)

\* mutant of LabelEndAt: the pattern of "expensive" without its lookbehind
LabelEndAt_NoLookbehind(text, i, key) ==
    CASE key = "too_expensive" ->
           IF TooLabelAt(text, i, LitEXPENSIVE) THEN i + 13 ELSE 0
      [] key = "expensive" ->
           IF MatchesAt(text, i, LitEXPENSIVE) THEN i + 9 ELSE 0
      [] key = "bargain" ->
           IF MatchesAt(text, i, LitBARGAIN) THEN i + 7 ELSE 0
      [] key = "too_cheap" ->
           IF TooLabelAt(text, i, LitCHEAP) THEN i + 9 ELSE 0

\* The label part of patterns[key] (lines 92-95) at position i: the
\* position after the label, or 0 when it does not match there.
\* (?<!TOO[_\s]) looks at the four characters before position i.
LabelEndAt(text, i, key) ==
    CASE key = "too_expensive" ->
           IF TooLabelAt(text, i, LitEXPENSIVE) THEN i + 13 ELSE 0
      [] key = "expensive" ->
           IF MatchesAt(text, i, LitEXPENSIVE)
              /\ ~(MatchesAt(text, i - 4, LitTOO)
                   /\ (text[i - 1] = "_" \/ IsSpace(text[i - 1])))
           THEN i + 9 ELSE 0
      [] key = "bargain" ->
           IF MatchesAt(text, i, LitBARGAIN) THEN i + 7 ELSE 0
      [] key = "too_cheap" ->
           IF TooLabelAt(text, i, LitCHEAP) THEN i + 9 ELSE 0

\* \s* from position i: the first position that holds no white space
RECURSIVE SkipSpaces(_, _)
SkipSpaces(text, i) ==
    IF i <= Len(text) /\ IsSpace(text[i]) THEN SkipSpaces(text, i + 1) ELSE i

\* [\d,]+ from position i: the last position of the run (i - 1: no run)
RECURSIVE DigitRunEnd(_, _)
DigitRunEnd(text, i) ==
    IF i <= Len(text) /\ (text[i] \in Digits \/ text[i] = ",")
    THEN DigitRunEnd(text, i + 1) ELSE i - 1

IsDigitAt(text, i) == i <= Len(text) /\ text[i] \in Digits

\* \s*:\s*\$?\s*([\d,]+(?:\.\d{1,2})?) from position i: group 1, or no match
ValueGroupAt(text, i) ==
    LET a == SkipSpaces(text, i) IN
    IF a > Len(text) \/ text[a] # ":" THEN NoValue
    ELSE LET b == SkipSpaces(text, a + 1)
             c == IF b <= Len(text) /\ text[b] = "$" THEN b + 1 ELSE b
             d == SkipSpaces(text, c)
             e == DigitRunEnd(text, d)
             f == IF e + 1 <= Len(text) /\ text[e + 1] = "." /\ IsDigitAt(text, e + 2)
                  THEN (IF IsDigitAt(text, e + 3) THEN e + 3 ELSE e + 2)
                  ELSE e
         IN  IF e < d THEN NoValue ELSE << SubSeq(text, d, f) >>

\* patterns[key] at position i: group 1 of the match, or no match
PatternAt(text, i, key) ==
    IF LabelEndAt(text, i, key) = 0 THEN NoValue
    ELSE ValueGroupAt(text, LabelEndAt(text, i, key))

\* re.search(pattern, text, re.IGNORECASE): the leftmost match (line 100)
ReSearch(text, key) ==
    LET starts == { i \in DOMAIN text : PatternAt(text, i, key) # NoValue }
    IN  IF starts = {} THEN NoValue
        ELSE PatternAt(text, CHOOSE i \in starts : \A j \in starts : i <= j, key)

DigitValue(c) == CHOOSE v \in 0..9 : <<"0","1","2","3","4","5","6","7","8","9">>[v + 1] = c

\* float() of a string of digits with at most two decimals, in cents;
\* float("") raises ValueError: no value
RECURSIVE IntOfDigits(_)
IntOfDigits(ds) ==
    IF ds = << >> THEN 0
    ELSE 10 * IntOfDigits(SubSeq(ds, 1, Len(ds) - 1)) + DigitValue(ds[Len(ds)])

ParseFloat(str) ==
    IF str = << >> THEN NoValue
    ELSE LET dots == { i \in DOMAIN str : str[i] = "." }
             dot == IF dots = {} THEN Len(str) + 1 ELSE CHOOSE i \in dots : TRUE
             whole == IntOfDigits(SubSeq(str, 1, dot - 1))
             frac == SubSeq(str, dot + 1, Len(str))
         IN  << 100 * whole
                + (IF Len(frac) = 1 THEN 10 * IntOfDigits(frac) ELSE IntOfDigits(frac)) >>

IsComma(c) == c = ","
NotComma(c) == ~IsComma(c)

\* match.group(1).replace(",", "") and float() (lines 100-108): the price
\* of one key, or no value
PriceOf(text, key) ==
    LET m == ReSearch(text, key)
    IN  IF m = NoValue THEN NoValue ELSE ParseFloat(SelectSeq(m[1], NotComma))

PriceKeys == <<"too_expensive", "expensive", "bargain", "too_cheap">>

\* _parse_price_points(text) (lines 76-115): the dict of the four prices,
\* or None; the sanity check of line 111 changes nothing
parse_price_points(text) ==
    LET too_expensive == PriceOf(text, "too_expensive")
        expensive == PriceOf(text, "expensive")
        bargain == PriceOf(text, "bargain")
        too_cheap == PriceOf(text, "too_cheap")
    IN  IF text = << >> THEN NoValue
        ELSE IF \/ too_expensive = NoValue
                \/ expensive = NoValue
                \/ bargain = NoValue
                \/ too_cheap = NoValue
             THEN NoValue
             ELSE << [ too_expensive |-> too_expensive[1],
                       expensive |-> expensive[1],
                       bargain |-> bargain[1],
                       too_cheap |-> too_cheap[1] ] >>

\* ---- _parse_price_points on its own
MaxPriceLines == 4

\* The lines the texts are put together from, each with the label it
\* carries and its number in cents (-1: the number is a lone comma; label
\* "none": the line has a label but no ": number" after it).
PriceLines ==
    { \* 'TOO_EXPENSIVE: $150\n'
      [ chars |-> <<"T","O","O","_","E","X","P","E","N","S","I","V","E",":"," ","$","1","5","0","\n">>,
        label |-> "too_expensive", cents |-> 15000 ],
      \* 'Too Expensive : 1,090\n'
      [ chars |-> <<"T","o","o"," ","E","x","p","e","n","s","i","v","e"," ",":"," ","1",",","0","9","0","\n">>,
        label |-> "too_expensive", cents |-> 109000 ],
      \* 'EXPENSIVE: $120.50\n'
      [ chars |-> <<"E","X","P","E","N","S","I","V","E",":"," ","$","1","2","0",".","5","0","\n">>,
        label |-> "expensive", cents |-> 12050 ],
      \* 'TOO  EXPENSIVE: $99\n'
      [ chars |-> <<"T","O","O"," "," ","E","X","P","E","N","S","I","V","E",":"," ","$","9","9","\n">>,
        label |-> "expensive", cents |-> 9900 ],
      \* 'BARGAIN: $80\n'
      [ chars |-> <<"B","A","R","G","A","I","N",":"," ","$","8","0","\n">>,
        label |-> "bargain", cents |-> 8000 ],
      \* 'BARGAIN: ,\n'
      [ chars |-> <<"B","A","R","G","A","I","N",":"," ",",","\n">>,
        label |-> "bargain", cents |-> -1 ],
      \* 'too_cheap:$200.5\n'
      [ chars |-> <<"t","o","o","_","c","h","e","a","p",":","$","2","0","0",".","5","\n">>,
        label |-> "too_cheap", cents |-> 20050 ],
      \* 'TOO CHEAP 50\n'
      [ chars |-> <<"T","O","O"," ","C","H","E","A","P"," ","5","0","\n">>,
        label |-> "none", cents |-> 0 ]
    }

PriceLineSeqs == SeqsUpTo(PriceLines, MaxPriceLines)

CharsOf(lines) == Concat([ i \in DOMAIN lines |-> lines[i].chars ])

ParseInit ==
    /\ MainIdle
    /\ call \in Calls("_parse_price_points", PriceLineSeqs)

ParsePricePoints ==
    /\ call.fn = "_parse_price_points"
    /\ call.ret = << >>
    /\ call' = [call EXCEPT !.ret = << parse_price_points(CharsOf(call.arg)) >>]
    /\ UNCHANGED mainVars

ParseNext == ParsePricePoints

ParseSpec == ParseInit /\ [][ParseNext]_vars

\* ---- C13
\* the first line of the text that carries the label, if any
LinesWith(lines, label) == { i \in DOMAIN lines : lines[i].label = label }
FirstLineWith(lines, label) ==
    CHOOSE i \in LinesWith(lines, label) : \A j \in LinesWith(lines, label) : i <= j
HasNumber(lines, label) ==
    /\ LinesWith(lines, label) # {}
    /\ lines[FirstLineWith(lines, label)].cents >= 0
ExpectedPrices(lines) ==
    IF \A k \in DOMAIN PriceKeys : HasNumber(lines, PriceKeys[k])
    THEN << [ too_expensive |-> lines[FirstLineWith(lines, "too_expensive")].cents,
              expensive |-> lines[FirstLineWith(lines, "expensive")].cents,
              bargain |-> lines[FirstLineWith(lines, "bargain")].cents,
              too_cheap |-> lines[FirstLineWith(lines, "too_cheap")].cents ] >>
    ELSE NoValue

\* C13: _parse_price_points returns None unless each of the four labels is
\* present with a parseable number (for each label its first "label :
\* number" occurrence decides), and otherwise returns exactly the four
\* numbers of the text, whatever their order of size; the EXPENSIVE inside
\* a TOO_EXPENSIVE / TOO EXPENSIVE label is not an EXPENSIVE label.
C13_AllFourOrNone ==
    Returned("_parse_price_points") => call.ret[1] = ExpectedPrices(call.arg)

\* a text whose first line is a TOO_EXPENSIVE line, parsed to four prices
\* of which expensive is not the number of that line and too_cheap is the
\* largest
C13_Witness ==
    /\ Returned("_parse_price_points")
    /\ call.ret[1] # NoValue
    /\ call.arg[1].label = "too_expensive"
    /\ call.ret[1][1].too_expensive = call.arg[1].cents
    /\ call.ret[1][1].expensive # call.arg[1].cents
    /\ call.ret[1][1].too_cheap > call.ret[1][1].too_expensive

\* ---- _calculate_intersections and _find_intersection
\* A quadruple is one respondent's four prices in cents.  Cumulative
\* fractions are in units of 0.0001 (round(x, 4)).
Quadruple(tc, b, e, te) ==
    [ too_cheap |-> tc, bargain |-> b, expensive |-> e, too_expensive |-> te ]

ValuesOf(p) == { p.too_cheap, p.bargain, p.expensive, p.too_expensive }

\* sorted(all_values) (lines 129-133)
RECURSIVE SortedSeq(_)
SortedSeq(S) ==
    IF S = {} THEN << >>
    ELSE LET m == CHOOSE x \in S : \A y \in S : x <= y
         IN  << m >> \o SortedSeq(S \ {m})

price_points(price_data) ==
    SortedSeq(UNION { ValuesOf(price_data[i]) : i \in DOMAIN price_data })

\* round(count / n, 4)
CumFraction(count, n) == RoundHalfEven(10000 * count, n)

\* mutant of CumulativeRow: too_cheap and bargain counted like the other two
CumulativeRow_AllAscending(price_data, price) ==
    LET n == Len(price_data)
        AtMost(key) == Cardinality({ i \in DOMAIN price_data : price_data[i][key] <= price })
    IN  [ price |-> price,
          too_cheap |-> CumFraction(AtMost("too_cheap"), n),
          bargain |-> CumFraction(AtMost("bargain"), n),
          expensive |-> CumFraction(AtMost("expensive"), n),
          too_expensive |-> CumFraction(AtMost("too_expensive"), n) ]

\* one entry of the cumulative table (lines 140-152)
CumulativeRow(price_data, price) ==
    LET n == Len(price_data)
        AtLeast(key) == Cardinality({ i \in DOMAIN price_data : price_data[i][key] >= price })
        AtMost(key) == Cardinality({ i \in DOMAIN price_data : price_data[i][key] <= price })
    IN  [ price |-> price,
          too_cheap |-> CumFraction(AtLeast("too_cheap"), n),
          bargain |-> CumFraction(AtLeast("bargain"), n),
          expensive |-> CumFraction(AtMost("expensive"), n),
          too_expensive |-> CumFraction(AtMost("too_expensive"), n) ]

Cumulative(price_data) ==
    LET axis == price_points(price_data)
    IN  [ i \in DOMAIN axis |-> CumulativeRow(price_data, axis[i]) ]

\* round(num / den, 2) of a price: to the nearest cent.  When num / den is
\* exactly half a cent the float that the code rounds is the nearest
\* double on one side or the other of it: up says which.
RoundCents(num, den, up) ==
    LET n == IF den < 0 THEN 0 - num ELSE num
        d == IF den < 0 THEN 0 - den ELSE den
        q == n \div d
        r == n % d
    IN  IF 2 * r < d THEN q
        ELSE IF 2 * r > d THEN q + 1
        ELSE IF up THEN q + 1 ELSE q

\* the operands of the float arithmetic of lines 201-208 on the segment
\* from sample i to sample i + 1; a1 - b1 and b1 - a1 are exact negations,
\* so the two curves enter as a set
SegmentKey(cum, i, a, b) ==
    << cum[i].price, cum[i + 1].price,
       { << cum[i][a], cum[i + 1][a] >>, << cum[i][b], cum[i + 1][b] >> } >>

\* the numerator and denominator of p1 + t * (p2 - p1), or of (p1 + p2) / 2
\* when the segments are parallel (lines 204-208)
CrossingNum(cum, i, a, b) ==
    LET denom == (cum[i + 1][a] - cum[i][a]) - (cum[i + 1][b] - cum[i][b])
    IN  IF denom = 0 THEN cum[i].price + cum[i + 1].price
        ELSE cum[i].price * denom
             + (cum[i][b] - cum[i][a]) * (cum[i + 1].price - cum[i].price)
CrossingDen(cum, i, a, b) ==
    LET denom == (cum[i + 1][a] - cum[i][a]) - (cum[i + 1][b] - cum[i][b])
    IN  IF denom = 0 THEN 2 ELSE denom

\* mutant of Interpolate: the midpoint of the segment, whatever the slopes
Interpolate_Midpoint(cum, i, a, b, ups) ==
    RoundCents(cum[i].price + cum[i + 1].price, 2, SegmentKey(cum, i, a, b) \in ups)

Interpolate(cum, i, a, b, ups) ==
    RoundCents(CrossingNum(cum, i, a, b), CrossingDen(cum, i, a, b),
               SegmentKey(cum, i, a, b) \in ups)

Diff(cum, i, a, b) == cum[i][a] - cum[i][b]

\* the loop of lines 189-212 from sample i on, then the check of the last
\* sample (lines 215-218)
RECURSIVE ScanFrom(_, _, _, _, _)
ScanFrom(cum, a, b, i, ups) ==
    IF i > Len(cum) - 1
    THEN IF cum # << >> /\ Diff(cum, Len(cum), a, b) = 0
         THEN << cum[Len(cum)].price >>
         ELSE NoValue
    ELSE IF Diff(cum, i, a, b) * Diff(cum, i + 1, a, b) < 0
         THEN << Interpolate(cum, i, a, b, ups) >>
         ELSE IF Diff(cum, i, a, b) = 0
              THEN << cum[i].price >>
              ELSE ScanFrom(cum, a, b, i + 1, ups)

find_intersection(cum, a, b, ups) == ScanFrom(cum, a, b, 1, ups)

\* _calculate_intersections(price_data) (lines 118-174)
calculate_intersections(price_data, ups) ==
    LET cum == Cumulative(price_data)
        opp == find_intersection(cum, "too_expensive", "too_cheap", ups)
        ipp == find_intersection(cum, "expensive", "bargain", ups)
        pmc == find_intersection(cum, "too_cheap", "expensive", ups)
        pme == find_intersection(cum, "too_expensive", "bargain", ups)
        low == IF pmc # NoValue THEN pmc[1] ELSE cum[1].price
        high == IF pme # NoValue THEN pme[1] ELSE cum[Len(cum)].price
    IN  [ optimal_price_point |-> opp,
          indifference_price_point |-> ipp,
          point_of_marginal_cheapness |-> pmc,
          point_of_marginal_expensiveness |-> pme,
          acceptable_price_range |-> [ low |-> << low >>, high |-> << high >> ],
          cumulative_data |-> cum ]

\* the four calls of lines 155-158
CurvePairs ==
    { << "too_expensive", "too_cheap" >>, << "expensive", "bargain" >>,
      << "too_cheap", "expensive" >>, << "too_expensive", "bargain" >> }

\* the segments on which a crossing is exactly half a cent
HalfCentSegments(price_data) ==
    LET cum == Cumulative(price_data)
    IN  { SegmentKey(cum, i, pair[1], pair[2]) :
            << i, pair >> \in
              { ip \in (1..(Len(cum) - 1)) \X CurvePairs :
                  /\ Diff(cum, ip[1], ip[2][1], ip[2][2])
                       * Diff(cum, ip[1] + 1, ip[2][1], ip[2][2]) < 0
                  /\ RoundCents(CrossingNum(cum, ip[1], ip[2][1], ip[2][2]),
                                CrossingDen(cum, ip[1], ip[2][1], ip[2][2]), TRUE)
                       # RoundCents(CrossingNum(cum, ip[1], ip[2][1], ip[2][2]),
                                    CrossingDen(cum, ip[1], ip[2][1], ip[2][2]), FALSE) } }

\* ---- _calculate_intersections on its own
MaxRespondents == 3

\* the prices of one respondent: every quadruple over 1.00 and 1.01, in
\* order or not, and the two of the example, (40, 60, 90, 120) and
\* (50, 70, 100, 130)
SampleQuadruples ==
    { Quadruple(100, 100, 100, 100), Quadruple(100, 100, 100, 101),
      Quadruple(100, 100, 101, 101), Quadruple(100, 101, 101, 101),
      Quadruple(101, 101, 101, 101),
      Quadruple(101, 101, 100, 100), Quadruple(101, 100, 101, 100),
      Quadruple(4000, 6000, 9000, 12000), Quadruple(5000, 7000, 10000, 13000) }

\* _calculate_intersections is called with two quadruples or more
\* (lines 54-58 and 63-64)
PriceDataLists ==
    { pd \in SeqsUpTo(SampleQuadruples, MaxRespondents) : Len(pd) >= 2 }

IntersectInit ==
    /\ MainIdle
    /\ call \in Calls("_calculate_intersections", PriceDataLists)

CalculateIntersections ==
    /\ call.fn = "_calculate_intersections"
    /\ call.ret = << >>
    /\ \E ups \in SUBSET HalfCentSegments(call.arg) :
         call' = [call EXCEPT !.ret = << calculate_intersections(call.arg, ups) >>]
    /\ UNCHANGED mainVars

IntersectNext == CalculateIntersections

IntersectSpec == IntersectInit /\ [][IntersectNext]_vars

\* ---- calculate_van_westendorp
\* mutant of PricesIn: the error of the result is not looked at
PricesIn_ErrorIgnored(r) == parse_price_points(CharsOf(r.response))

\* the body of the loop of lines 37-45 for one result: its prices, or
\* nothing when the result is skipped
PricesIn(r) ==
    IF r.error # None THEN NoValue
    ELSE parse_price_points(CharsOf(r.response))

\* the results the loop went through, each with its archetype (line 47)
\* and its prices
Priced(rs) ==
    [ i \in DOMAIN rs |->
        [ archetype |-> rs[i].archetype_name, prices |-> PricesIn(rs[i]) ] ]

HasPrices(x) == x.prices # NoValue

\* all_prices (line 48)
AllPrices(priced) ==
    LET kept == SelectSeq(priced, HasPrices)
    IN  [ i \in DOMAIN kept |-> kept[i].prices[1] ]

\* by_archetype[arch] (lines 50-52)
ArchetypePrices(priced, arch) ==
    LET Keep(x) == HasPrices(x) /\ x.archetype = arch
        kept == SelectSeq(priced, Keep)
    IN  [ i \in DOMAIN kept |-> kept[i].prices[1] ]

ArchetypesWithPrices(priced) ==
    { priced[i].archetype : i \in { j \in DOMAIN priced : HasPrices(priced[j]) } }

\* _empty_result() (lines 221-231)
empty_result ==
    [ optimal_price_point |-> NoValue,
      indifference_price_point |-> NoValue,
      point_of_marginal_cheapness |-> NoValue,
      point_of_marginal_expensiveness |-> NoValue,
      acceptable_price_range |-> [ low |-> NoValue, high |-> NoValue ],
      cumulative_data |-> << >>,
      by_archetype |-> << >> ]

\* archetype_results (lines 61-70)
ArchetypeResults(priced, ups) ==
    [ arch \in { a \in ArchetypesWithPrices(priced) :
                   Len(ArchetypePrices(priced, a)) >= 2 } |->
        LET x == calculate_intersections(ArchetypePrices(priced, arch), ups)
        IN  [ opp |-> x.optimal_price_point,
              ipp |-> x.indifference_price_point,
              pmc |-> x.point_of_marginal_cheapness,
              pme |-> x.point_of_marginal_expensiveness ] ]

\* lines 54-73, from the prices collected by the loop
WestendorpOf(priced, ups) ==
    LET all_prices == AllPrices(priced)
        overall == calculate_intersections(all_prices, ups)
    IN  IF Len(all_prices) < 2 THEN empty_result
        ELSE [ optimal_price_point |-> overall.optimal_price_point,
               indifference_price_point |-> overall.indifference_price_point,
               point_of_marginal_cheapness |-> overall.point_of_marginal_cheapness,
               point_of_marginal_expensiveness |-> overall.point_of_marginal_expensiveness,
               acceptable_price_range |-> overall.acceptable_price_range,
               cumulative_data |-> overall.cumulative_data,
               by_archetype |-> ArchetypeResults(priced, ups) ]

\* calculate_van_westendorp(results) (lines 16-73)
calculate_van_westendorp(rs, ups) == WestendorpOf(Priced(rs), ups)

\* every half-cent segment of the calls of lines 58 and 64
HalfCentSegmentsOf(priced) ==
    HalfCentSegments(AllPrices(priced))
    \cup UNION { HalfCentSegments(ArchetypePrices(priced, a)) :
                   a \in ArchetypesWithPrices(priced) }

\* ---- calculate_van_westendorp on its own
MaxResults == 3

LineOf(label, cents) ==
    CHOOSE l \in PriceLines : l.label = label /\ l.cents = cents

\* responses: two with all four prices, one with a single label, one with
\* a number that does not parse, and the empty text
SampleResponses ==
    [ full |-> << LineOf("too_expensive", 15000), LineOf("expensive", 12050),
                  LineOf("bargain", 8000), LineOf("too_cheap", 20050) >>,
      other |-> << LineOf("too_cheap", 20050), LineOf("bargain", 8000),
                   LineOf("expensive", 9900), LineOf("too_expensive", 109000) >>,
      single |-> << LineOf("bargain", 8000) >>,
      comma |-> << LineOf("too_expensive", 15000), LineOf("expensive", 12050),
                   LineOf("bargain", -1), LineOf("too_cheap", 20050) >>,
      empty |-> << >> ]

\* the fields of a result that calculate_van_westendorp reads
PriceResult(err, response, arch) ==
    [ error |-> err, response |-> response, archetype_name |-> arch ]

SampleResults ==
    { PriceResult(None, SampleResponses.full, "VC"),
      PriceResult(None, SampleResponses.other, "VC"),
      PriceResult(None, SampleResponses.full, "Founder"),
      PriceResult("api down", SampleResponses.full, "VC"),
      PriceResult(None, SampleResponses.single, "Founder"),
      PriceResult(None, SampleResponses.comma, "VC"),
      PriceResult("api down", SampleResponses.empty, "Founder") }

WestendorpInit ==
    /\ MainIdle
    /\ call \in Calls("calculate_van_westendorp", SeqsUpTo(SampleResults, MaxResults))

CalculateVanWestendorp ==
    /\ call.fn = "calculate_van_westendorp"
    /\ call.ret = << >>
    /\ \E ups \in SUBSET HalfCentSegmentsOf(Priced(call.arg)) :
         call' = [call EXCEPT !.ret = << calculate_van_westendorp(call.arg, ups) >>]
    /\ UNCHANGED mainVars

WestendorpNext == CalculateVanWestendorp

WestendorpSpec == WestendorpInit /\ [][WestendorpNext]_vars

\* ---- C14
\* the results that count, read off the lines of each response
ValidResults(rs) ==
    { i \in DOMAIN rs :
        rs[i].error = None /\ ExpectedPrices(rs[i].response) # NoValue }

ValidValues(rs) ==
    UNION { ValuesOf(ExpectedPrices(rs[i].response)[1]) : i \in ValidResults(rs) }

ValidCountOf(rs, arch) ==
    Cardinality({ i \in ValidResults(rs) : rs[i].archetype_name = arch })

IsEmptyShape(res) ==
    /\ res.optimal_price_point = NoValue
    /\ res.indifference_price_point = NoValue
    /\ res.point_of_marginal_cheapness = NoValue
    /\ res.point_of_marginal_expensiveness = NoValue
    /\ res.acceptable_price_range.low = NoValue
    /\ res.acceptable_price_range.high = NoValue
    /\ res.cumulative_data = << >>
    /\ DOMAIN res.by_archetype = {}

\* C14: calculate_van_westendorp counts only the results with error null
\* whose response holds all four prices; with fewer than 2 of them it
\* returns the empty shape (every point and both ends of the range null,
\* no cumulative table, no archetype), and with 2 or more the price axis is
\* made of the prices of exactly those results and the archetypes listed
\* are those with at least 2 of them.
C14_FewerThanTwoIsEmpty ==
    Returned("calculate_van_westendorp") =>
        LET res == call.ret[1]
            axis == { res.cumulative_data[i].price : i \in DOMAIN res.cumulative_data }
        IN  IF Cardinality(ValidResults(call.arg)) < 2
            THEN IsEmptyShape(res)
            ELSE /\ axis = ValidValues(call.arg)
                 /\ DOMAIN res.by_archetype
                      = { a \in {"VC", "Founder"} : ValidCountOf(call.arg, a) >= 2 }

\* a list of three results, two of them with all four prices in the
\* response, one of these two with an error: the empty shape is returned
C14_Witness ==
    /\ Returned("calculate_van_westendorp")
    /\ Len(call.arg) = 3
    /\ Cardinality(ValidResults(call.arg)) = 1
    /\ \E i \in DOMAIN call.arg :
         call.arg[i].error # None /\ ExpectedPrices(call.arg[i].response) # NoValue
    /\ IsEmptyShape(call.ret[1])

\* ---- C15
\* the returned point of each curve pair (lines 155-158 and 165-168)
PointOf(res, pair) ==
    CASE pair = << "too_expensive", "too_cheap" >> -> res.optimal_price_point
      [] pair = << "expensive", "bargain" >> -> res.indifference_price_point
      [] pair = << "too_cheap", "expensive" >> -> res.point_of_marginal_cheapness
      [] pair = << "too_expensive", "bargain" >> -> res.point_of_marginal_expensiveness

Gap(cum, i, pair) == cum[i][pair[1]] - cum[i][pair[2]]
Magnitude(x) == IF x < 0 THEN 0 - x ELSE x

ChangesSign(cum, i, pair) ==
    /\ i < Len(cum)
    /\ \/ Gap(cum, i, pair) < 0 /\ Gap(cum, i + 1, pair) > 0
       \/ Gap(cum, i, pair) > 0 /\ Gap(cum, i + 1, pair) < 0

\* the samples at which the curves meet or after which they cross
CrossingsOf(cum, pair) ==
    { i \in DOMAIN cum : Gap(cum, i, pair) = 0 \/ ChangesSign(cum, i, pair) }

FirstCrossing(cum, pair) ==
    CHOOSE i \in CrossingsOf(cum, pair) : \A j \in CrossingsOf(cum, pair) : i <= j

\* x is the price at which the straight lines through the two samples
\* meet, to the nearest cent
IsInterpolated(cum, i, pair, x) ==
    LET u == Magnitude(Gap(cum, i, pair))
        v == Magnitude(Gap(cum, i + 1, pair))
        exact == cum[i].price * (u + v) + (cum[i + 1].price - cum[i].price) * u
    IN  2 * Magnitude(x * (u + v) - exact) <= u + v

\* the claim but for where the interpolated price lies
FirstCrossingReturned(cum, pair, point, Lies(_, _, _)) ==
    /\ point = NoValue <=> CrossingsOf(cum, pair) = {}
    /\ point # NoValue =>
         LET i == FirstCrossing(cum, pair) IN
         IF Gap(cum, i, pair) = 0
         THEN point[1] = cum[i].price
         ELSE /\ IsInterpolated(cum, i, pair, point[1])
              /\ Lies(cum[i].price, point[1], cum[i + 1].price)

StrictlyBetween(lo, x, hi) == lo < x /\ x < hi
Between(lo, x, hi) == lo <= x /\ x <= hi

\* C15 as stated: for each curve pair the first crossing in ascending
\* price order is returned: the sample's price on a zero difference, the
\* interpolated price strictly between the two axis values on a sign
\* change, null exactly when there is neither.
C15_StrictlyBetweenSamples ==
    Returned("_calculate_intersections") =>
        \A pair \in CurvePairs :
            FirstCrossingReturned(call.ret[1].cumulative_data, pair,
                                  PointOf(call.ret[1], pair), StrictlyBetween)

\* C15 amended: as above, but the interpolated price, rounded to the cent,
\* lies between the two axis values and may be one of them.
C15_BetweenSamples ==
    Returned("_calculate_intersections") =>
        \A pair \in CurvePairs :
            FirstCrossingReturned(call.ret[1].cumulative_data, pair,
                                  PointOf(call.ret[1], pair), Between)

\* a sign change between two samples whose interpolated price is returned
\* as the price of one of the two samples
C15_Witness ==
    /\ Returned("_calculate_intersections")
    /\ \E pair \in CurvePairs :
         LET cum == call.ret[1].cumulative_data
             i == FirstCrossing(cum, pair)
         IN  /\ CrossingsOf(cum, pair) # {}
             /\ ChangesSign(cum, i, pair)
             /\ PointOf(call.ret[1], pair)[1] \in { cum[i].price, cum[i + 1].price }

\* ---- C16
InOrder(p) ==
    p.too_cheap <= p.bargain /\ p.bargain <= p.expensive /\ p.expensive <= p.too_expensive

\* C16: when every respondent has too_cheap <= bargain <= expensive <=
\* too_expensive, _calculate_intersections returns a price for OPP, IPP,
\* PMC and PME, with PMC <= PME and the range's low <= high.
C16_OrderedRange ==
    (Returned("_calculate_intersections")
       /\ \A i \in DOMAIN call.arg : InOrder(call.arg[i])) =>
        LET res == call.ret[1] IN
        /\ \A pair \in CurvePairs : PointOf(res, pair) # NoValue
        /\ res.point_of_marginal_cheapness[1] <= res.point_of_marginal_expensiveness[1]
        /\ res.acceptable_price_range.low[1] <= res.acceptable_price_range.high[1]

\* the example: (40, 60, 90, 120) and (50, 70, 100, 130) give PMC 60 and
\* PME 90
C16_Witness ==
    /\ Returned("_calculate_intersections")
    /\ call.arg = << Quadruple(4000, 6000, 9000, 12000),
                     Quadruple(5000, 7000, 10000, 13000) >>
    /\ call.ret[1].point_of_marginal_cheapness = << 6000 >>
    /\ call.ret[1].point_of_marginal_expensiveness = << 9000 >>
    /\ call.ret[1].acceptable_price_range = [ low |-> << 6000 >>, high |-> << 9000 >> ]

\* ---- C17
\* the result a response_complete line carries
CarriedResult(ev) ==
    [ persona_id |-> ev.persona_id,
      archetype_id |-> ev.archetype_id,
      archetype_name |-> ev.archetype_name,
      response |-> ev.response,
      sentiment |-> ev.sentiment,
      tokens |-> ev.tokens,
      error |-> ev.error ]

\* the results of the response_complete lines before line e, in order
CarriedBefore(e) ==
    LET at == SortedSeq({ k \in LinesOf("response_complete") : k < e })
    IN  [ i \in DOMAIN at |-> CarriedResult(stream[at[i]]) ]

GeneratedIds == { stream[k].persona_id : k \in LinesOf("persona_generated") }

\* C17: in every experiment_complete line successful_responses +
\* failed_responses = total_personas, the results list is the sequence of
\* the results of the response_complete lines before it, in the same
\* order, and every generated persona_id is in it exactly once.
C17_CompleteAccountsForAll ==
    \A e \in LinesOf("experiment_complete") :
        LET rs == stream[e].results
            m == stream[e].metrics
        IN  /\ m.successful_responses + m.failed_responses = m.total_personas
            /\ rs = CarriedBefore(e)
            /\ \A id \in GeneratedIds :
                 Cardinality({ i \in DOMAIN rs : rs[i].persona_id = id }) = 1
            /\ Len(rs) = Cardinality(GeneratedIds)

\* a finished run of two personas, one answered and one with an error
C17_Witness ==
    \E e \in LinesOf("experiment_complete") :
        /\ stream[e].metrics.total_personas = 2
        /\ stream[e].metrics.successful_responses = 1
        /\ stream[e].metrics.failed_responses = 1
        /\ Len(stream[e].results) = 2

====
